---- MODULE Spec2Model ----
(***************************************************************************)
(* MicroManagerr backend: configuration loading (app/config.py) and the    *)
(* HTTP endpoints of app/api/routes/{health,sonarr,radarr}.py and          *)
(* app/main.py.                                                            *)
(*                                                                         *)
(* The process reads its environment once, builds the Settings singleton   *)
(* (or fails to start), and then answers requests.  Every endpoint is one  *)
(* action; the response it produces is recorded in `last`.                 *)
(***************************************************************************)
EXTENDS Naturals, Sequences, FiniteSets, TLC

VARIABLES
    env,        \* the raw environment the process was started with
    phase,      \* "import" (before get_settings ran), "running", "failed"
    settings,   \* the Settings singleton, NoSettings before/without it
    last,       \* the response to the latest request (test-connection
                \* answers also carry the URL of the request, req_url)
    nreq,       \* number of requests answered so far
    ncalls,     \* number of calls of get_settings() so far
    remote      \* condition of the remote service while `last` was served

vars == <<env, phase, settings, last, nreq, ncalls, remote>>

----------------------------------------------------------------------------
(* Bounds of the model *)

MaxRequests == 2
MaxSettingsCalls == 2
MaxMovieId == 2
MaxTagId == 1

----------------------------------------------------------------------------
(* Values *)

\* Python's None for an Optional[str] field; never one of the strings below.
NoneVal == "<None>"

\* URLs and keys an environment may carry, and those a request body may carry.
UrlInputs == {"", "http://sonarr:8989", "http://radarr:7878"}
ApiKey == "0123456789abcdef0123456789abcdef"
KeyInputs == {"short", ApiKey}
EnvUrls == {NoneVal} \cup UrlInputs
EnvKeys == {NoneVal, "", ApiKey}

\* log_level is modelled character by character so that str.upper() is computed.
LowerAlpha == <<"a","b","c","d","e","f","g","h","i","j","k","l","m",
                "n","o","p","q","r","s","t","u","v","w","x","y","z">>
UpperAlpha == <<"A","B","C","D","E","F","G","H","I","J","K","L","M",
                "N","O","P","Q","R","S","T","U","V","W","X","Y","Z">>

UpperChar(c) ==
    IF \E i \in 1..Len(LowerAlpha) : LowerAlpha[i] = c
    THEN UpperAlpha[CHOOSE i \in 1..Len(LowerAlpha) : LowerAlpha[i] = c]
    ELSE c

\* str.upper()
Upper(v) == [i \in 1..Len(v) |-> UpperChar(v[i])]

valid_levels ==
    { <<"D","E","B","U","G">>, <<"I","N","F","O">>,
      <<"W","A","R","N","I","N","G">>, <<"E","R","R","O","R">>,
      <<"C","R","I","T","I","C","A","L">> }

LogLevelInputs ==
    { <<"I","N","F","O">>, <<"i","n","f","o">>, <<"D","e","b","u","g">>,
      <<"w","a","r","n","i","n","g">>, <<"E","R","R","O","R">>,
      <<"c","r","i","t","i","c","a","l">>,
      <<"t","r","a","c","e">>, <<"I","N","F","O"," ">>, <<>> }

LabelInputs == {"", "HDR", "hdr", "IMAX"}

MovieIds == 1..MaxMovieId
TagIdLists == {<<>>} \cup {<<t>> : t \in 1..MaxTagId}
                     \cup {<<s, t>> : s \in 1..MaxTagId, t \in 1..MaxTagId}

NoSettings == [loaded |-> FALSE]
NoResponse == [ep |-> "none", code |-> 0]

\* The remote Sonarr/Radarr as it is while a request is served: whether it
\* answers, and whether it holds the movie / a tag with the label the request
\* names.  The handlers
\* never contact it; the model records it to compare the answers with it.
NoRemote == [reachable |-> FALSE, movie_exists |-> FALSE, tag_exists |-> FALSE]
RemoteStates == [reachable : BOOLEAN, movie_exists : BOOLEAN, tag_exists : BOOLEAN]

\* Python truthiness of an Optional[str]
Truthy(s) == s # NoneVal /\ s # ""

----------------------------------------------------------------------------
(* app/config.py *)

ValidLogLevel(v) == Upper(v) \in valid_levels

\* Variant: the value is returned as given (v instead of upper_v).
validate_log_level_as_given(v) == v

validate_log_level(v) == Upper(v)

\* Variant: the API key is not looked at.
sonarr_configured_url_only(s) == Truthy(s.sonarr_url)

sonarr_configured(s) == Truthy(s.sonarr_url) /\ Truthy(s.sonarr_api_key)

radarr_configured(s) == Truthy(s.radarr_url) /\ Truthy(s.radarr_api_key)

\* Settings(): the fields read from the environment, log_level validated.
MakeSettings(e) ==
    [ loaded         |-> TRUE,
      debug          |-> e.debug,
      sonarr_url     |-> e.sonarr_url,
      sonarr_api_key |-> e.sonarr_api_key,
      radarr_url     |-> e.radarr_url,
      radarr_api_key |-> e.radarr_api_key,
      log_level      |-> validate_log_level(e.log_level) ]

\* Variant: get_settings() without the cache builds Settings on every call.
get_settings_uncached ==
    /\ phase \in {"import", "running"}
    /\ ncalls < MaxSettingsCalls
    /\ ncalls' = ncalls + 1
    /\ IF ValidLogLevel(env.log_level)
       THEN /\ settings' = MakeSettings(env)
            /\ phase' = "running"
       ELSE /\ settings' = NoSettings
            /\ phase' = "failed"
    /\ UNCHANGED <<env, last, nreq, remote>>

\* get_settings(), under @lru_cache: the first call (at import of app.config)
\* builds Settings from the environment or fails; a later call returns the
\* cached object.
get_settings ==
    /\ phase \in {"import", "running"}
    /\ ncalls < MaxSettingsCalls
    /\ ncalls' = ncalls + 1
    /\ IF settings.loaded
       THEN UNCHANGED <<settings, phase>>
       ELSE IF ValidLogLevel(env.log_level)
       THEN /\ settings' = MakeSettings(env)
            /\ phase' = "running"
       ELSE /\ settings' = NoSettings
            /\ phase' = "failed"
    /\ UNCHANGED <<env, last, nreq, remote>>

\* The .env file (or the process environment) is edited while the process
\* runs: one of the service fields gets another value.
ServiceFields == {"sonarr_url", "sonarr_api_key", "radarr_url", "radarr_api_key"}

edit_env_file ==
    /\ phase = "running"
    /\ \A f \in ServiceFields : env[f] = settings[f]
    /\ \E f \in ServiceFields :
         \E v \in (IF f \in {"sonarr_url", "radarr_url"} THEN EnvUrls ELSE EnvKeys) :
            /\ v # env[f]
            /\ env' = [env EXCEPT ![f] = v]
    /\ UNCHANGED <<phase, settings, last, nreq, ncalls, remote>>

----------------------------------------------------------------------------
(* Requests *)

CanServe == phase = "running" /\ nreq < MaxRequests

\* A request served while the remote service is in condition w.
RespondObserving(r, w) ==
    /\ last' = r
    /\ nreq' = nreq + 1
    /\ remote' = w
    /\ UNCHANGED <<env, phase, settings, ncalls>>

Respond(r) == RespondObserving(r, NoRemote)

Unavailable(ep) == [ep |-> ep, code |-> 503]

\* require_sonarr_configured() / require_radarr_configured() return normally
\* (TRUE) or raise the 503 (FALSE).
require_sonarr_configured == sonarr_configured(settings)

\* Variant: the guard never raises.
require_radarr_never_raises == TRUE

require_radarr_configured == radarr_configured(settings)

\* FastAPI's validation of a ConnectionRequest body (min_length = max_length = 32)
ConnectionRequestValid(key) == Len(key) = 32

\* FastAPI's validation of a RadarrTagCreateRequest body (1 <= len(label) <= 50)
TagCreateRequestValid(label) == Len(label) >= 1 /\ Len(label) <= 50

(* app/main.py *)
root ==
    /\ CanServe
    /\ Respond([ep |-> "root", code |-> 200])

(* app/api/routes/health.py *)
health_check ==
    /\ CanServe
    /\ Respond([ep |-> "health_check", code |-> 200, status |-> "healthy"])

\* Variant: the URL is reported whenever it is set.
detailed_health_check_reveals_url ==
    /\ CanServe
    /\ Respond([ ep |-> "detailed_health_check", code |-> 200,
                 status |-> "healthy",
                 sonarr_status |-> IF sonarr_configured(settings)
                                   THEN "configured" ELSE "not_configured",
                 sonarr_url |-> settings.sonarr_url,
                 radarr_status |-> IF radarr_configured(settings)
                                   THEN "configured" ELSE "not_configured",
                 radarr_url |-> settings.radarr_url,
                 debug |-> settings.debug,
                 log_level |-> settings.log_level ])

detailed_health_check ==
    /\ CanServe
    /\ Respond([ ep |-> "detailed_health_check", code |-> 200,
                 status |-> "healthy",
                 sonarr_status |-> IF sonarr_configured(settings)
                                   THEN "configured" ELSE "not_configured",
                 sonarr_url |-> IF sonarr_configured(settings)
                                THEN settings.sonarr_url ELSE NoneVal,
                 radarr_status |-> IF radarr_configured(settings)
                                   THEN "configured" ELSE "not_configured",
                 radarr_url |-> IF radarr_configured(settings)
                                THEN settings.radarr_url ELSE NoneVal,
                 debug |-> settings.debug,
                 log_level |-> settings.log_level ])

(* app/api/routes/sonarr.py *)
StatusResponse(ep, connected, version, url, error) ==
    [ ep |-> ep, code |-> 200, connected |-> connected,
      version |-> version, url |-> url, error |-> error ]

\* The answer of test_sonarr_connection / test_radarr_connection to a valid
\* request for `url`.
TestResponse(ep, url) ==
    [ ep |-> ep, code |-> 200, connected |-> TRUE,
      version |-> "(pending implementation)", url |-> url, error |-> NoneVal,
      req_url |-> url ]

get_sonarr_status ==
    /\ CanServe
    /\ \E up \in BOOLEAN :
          RespondObserving(
              IF ~sonarr_configured(settings)
              THEN StatusResponse("get_sonarr_status", FALSE, NoneVal, NoneVal,
                                  "Sonarr not configured")
              ELSE StatusResponse("get_sonarr_status", TRUE,
                                  "(pending implementation)",
                                  settings.sonarr_url, NoneVal),
              [reachable |-> up, movie_exists |-> FALSE, tag_exists |-> FALSE])

\* Variant: the tested credentials are stored in the settings.
test_sonarr_connection_saving ==
    /\ CanServe
    /\ \E url \in UrlInputs, key \in KeyInputs :
          /\ last' = (IF ~ConnectionRequestValid(key)
                      THEN [ep |-> "test_sonarr_connection", code |-> 422]
                      ELSE TestResponse("test_sonarr_connection", url))
          /\ settings' = (IF ~ConnectionRequestValid(key)
                          THEN settings
                          ELSE [settings EXCEPT !.sonarr_url = url,
                                                !.sonarr_api_key = key])
    /\ nreq' = nreq + 1
    /\ remote' = NoRemote
    /\ UNCHANGED <<env, phase, ncalls>>

test_sonarr_connection ==
    /\ CanServe
    /\ \E url \in UrlInputs, key \in KeyInputs :
          Respond(IF ~ConnectionRequestValid(key)
                  THEN [ep |-> "test_sonarr_connection", code |-> 422]
                  ELSE TestResponse("test_sonarr_connection", url))

get_all_series ==
    /\ CanServe
    /\ Respond(IF ~require_sonarr_configured
               THEN Unavailable("get_all_series")
               ELSE [ep |-> "get_all_series", code |-> 200, items |-> <<>>])

sonarr_get_all_tags ==
    /\ CanServe
    /\ Respond(IF ~require_sonarr_configured
               THEN Unavailable("sonarr_get_all_tags")
               ELSE [ep |-> "sonarr_get_all_tags", code |-> 200, items |-> <<>>])

(* app/api/routes/radarr.py *)
get_radarr_status ==
    /\ CanServe
    /\ \E up \in BOOLEAN :
          RespondObserving(
              IF ~radarr_configured(settings)
              THEN StatusResponse("get_radarr_status", FALSE, NoneVal, NoneVal,
                                  "Radarr not configured")
              ELSE StatusResponse("get_radarr_status", TRUE,
                                  "(pending implementation)",
                                  settings.radarr_url, NoneVal),
              [reachable |-> up, movie_exists |-> FALSE, tag_exists |-> FALSE])

\* Variant: the endpoint is guarded like the library endpoints and answers
\* with the configured URL.
test_radarr_connection_guarded ==
    /\ CanServe
    /\ \E url \in UrlInputs, key \in KeyInputs :
          Respond(IF ~ConnectionRequestValid(key)
                  THEN [ep |-> "test_radarr_connection", code |-> 422]
                  ELSE IF ~require_radarr_configured
                  THEN Unavailable("test_radarr_connection")
                  ELSE [TestResponse("test_radarr_connection", url)
                            EXCEPT !.url = settings.radarr_url])

test_radarr_connection ==
    /\ CanServe
    /\ \E url \in UrlInputs, key \in KeyInputs :
          Respond(IF ~ConnectionRequestValid(key)
                  THEN [ep |-> "test_radarr_connection", code |-> 422]
                  ELSE TestResponse("test_radarr_connection", url))

get_all_movies ==
    /\ CanServe
    /\ Respond(IF ~require_radarr_configured
               THEN Unavailable("get_all_movies")
               ELSE [ep |-> "get_all_movies", code |-> 200, items |-> <<>>])

get_movie ==
    /\ CanServe
    /\ \E movie_id \in MovieIds :
          Respond(IF ~require_radarr_configured
                  THEN Unavailable("get_movie")
                  ELSE [ep |-> "get_movie", code |-> 404, movie_id |-> movie_id])

radarr_get_all_tags ==
    /\ CanServe
    /\ Respond(IF ~require_radarr_configured
               THEN Unavailable("radarr_get_all_tags")
               ELSE [ep |-> "radarr_get_all_tags", code |-> 200, items |-> <<>>])

PlaceholderTagId == 999

create_tag ==
    /\ CanServe
    /\ \E label \in LabelInputs, exists \in BOOLEAN :
          RespondObserving(IF ~TagCreateRequestValid(label)
                           THEN [ep |-> "create_tag", code |-> 422]
                           ELSE IF ~require_radarr_configured
                           THEN Unavailable("create_tag")
                           ELSE [ep |-> "create_tag", code |-> 201,
                                 id |-> PlaceholderTagId, label |-> label],
                           [reachable |-> TRUE, movie_exists |-> FALSE,
                            tag_exists |-> exists])

update_movie_tags ==
    /\ CanServe
    /\ \E movie_id \in MovieIds, tag_ids \in TagIdLists, exists \in BOOLEAN :
          RespondObserving(IF ~require_radarr_configured
                           THEN Unavailable("update_movie_tags")
                           ELSE [ep |-> "update_movie_tags", code |-> 404,
                                 movie_id |-> movie_id],
                           [reachable |-> TRUE, movie_exists |-> exists, tag_exists |-> FALSE])

----------------------------------------------------------------------------
(* Specification *)

Init ==
    /\ env \in [ debug          : BOOLEAN,
                 sonarr_url     : EnvUrls,
                 sonarr_api_key : EnvKeys,
                 radarr_url     : EnvUrls,
                 radarr_api_key : EnvKeys,
                 log_level      : LogLevelInputs ]
    /\ phase = "import"
    /\ settings = NoSettings
    /\ last = NoResponse
    /\ nreq = 0
    /\ ncalls = 0
    /\ remote = NoRemote

Next ==
    \/ get_settings
    \/ root
    \/ health_check
    \/ detailed_health_check
    \/ get_sonarr_status
    \/ test_sonarr_connection
    \/ get_all_series
    \/ sonarr_get_all_tags
    \/ get_radarr_status
    \/ test_radarr_connection
    \/ get_all_movies
    \/ get_movie
    \/ radarr_get_all_tags
    \/ create_tag
    \/ update_movie_tags

Spec == Init /\ [][Next]_vars

\* The same program in an environment that is edited while it runs.
InitReload ==
    /\ Init
    /\ env.debug = FALSE
    /\ env.log_level \in {<<"i","n","f","o">>, <<"t","r","a","c","e">>}

NextReload == Next \/ edit_env_file

SpecReload == InitReload /\ [][NextReload]_vars

----------------------------------------------------------------------------
(* Type correctness of the model *)

TypeOK ==
    /\ phase \in {"import", "running", "failed"}
    /\ nreq \in 0..MaxRequests
    /\ ncalls \in 0..MaxSettingsCalls
    /\ remote \in RemoteStates
    /\ settings.loaded = (phase = "running")
    /\ last.code \in {0, 200, 201, 404, 422, 503}

----------------------------------------------------------------------------
(* Facts about the placeholder endpoints.                                  *)
(*                                                                         *)
(* The repository holds no reconciliation engine, orchestrator, remote     *)
(* client, retry loop or per-item lock: the only operations that touch     *)
(* tags are the Radarr endpoints below, and they keep no state.            *)

\* update_movie_tags and get_movie never answer with a movie: on a configured
\* service they always raise 404, otherwise 503.
ItemEndpointsNeverSucceed ==
    last.ep \in {"update_movie_tags", "get_movie"} => last.code \in {404, 503}

\* The tag and item listings are always empty, also after a 201 of create_tag.
ListingsAlwaysEmpty ==
    (last.ep \in {"radarr_get_all_tags", "sonarr_get_all_tags",
                  "get_all_movies", "get_all_series"} /\ last.code = 200)
        => last.items = <<>>

\* create_tag echoes the requested label (not a canonical form of it) with
\* the constant placeholder id.
CreateTagEchoes ==
    (last.ep = "create_tag" /\ last.code = 201)
        => last.id = PlaceholderTagId /\ last.label \in LabelInputs

\* No request changes the settings or the environment.
RequestsKeepSettings ==
    [][nreq' # nreq => settings' = settings /\ env' = env]_vars

----------------------------------------------------------------------------
(* Properties of the configuration guard and of the endpoints *)

RadarrGuarded == {"get_all_movies", "get_movie", "radarr_get_all_tags",
                  "create_tag", "update_movie_tags"}
SonarrGuarded == {"get_all_series", "sonarr_get_all_tags"}
StatusEndpoints == {"get_sonarr_status", "get_radarr_status"}
TestEndpoints == {"test_sonarr_connection", "test_radarr_connection"}

\* C13 as stated: every request to a guarded endpoint of an unconfigured
\* service is answered 503, and the guard never raises for a configured one.
\* Fails: a create_tag request whose body is rejected by the declared
\* validation is answered 422 before the guard runs.
C13_GuardAlways503 ==
    /\ (last.ep \in RadarrGuarded /\ ~radarr_configured(settings))
          => last.code = 503
    /\ (last.ep \in SonarrGuarded /\ ~sonarr_configured(settings))
          => last.code = 503
    /\ (last.ep \in RadarrGuarded /\ radarr_configured(settings))
          => last.code # 503
    /\ (last.ep \in SonarrGuarded /\ sonarr_configured(settings))
          => last.code # 503

\* C13 amended: every request to a guarded endpoint that passes the request
\* validation (is not answered 422) is answered 503 when the service is not
\* configured, never 404, 201 or a list; and never 503 when it is configured.
C13_GuardFirst ==
    /\ (last.ep \in RadarrGuarded /\ last.code # 422 /\ ~radarr_configured(settings))
          => last.code = 503
    /\ (last.ep \in SonarrGuarded /\ last.code # 422 /\ ~sonarr_configured(settings))
          => last.code = 503
    /\ (last.ep \in RadarrGuarded /\ radarr_configured(settings))
          => last.code # 503
    /\ (last.ep \in SonarrGuarded /\ sonarr_configured(settings))
          => last.code # 503

\* A valid create_tag request was answered 503 by an unconfigured Radarr.
C13_Witness ==
    /\ last.ep = "create_tag"
    /\ last.code = 503
    /\ ~radarr_configured(settings)

\* C14: a service is configured exactly when its URL and its API key are both
\* set and non-empty in the environment, and neither flag depends on the
\* other service's settings.
C14_ConfiguredIffBothSet ==
    settings.loaded =>
      /\ sonarr_configured(settings)
            <=> (/\ env.sonarr_url \notin {NoneVal, ""}
                 /\ env.sonarr_api_key \notin {NoneVal, ""})
      /\ radarr_configured(settings)
            <=> (/\ env.radarr_url \notin {NoneVal, ""}
                 /\ env.radarr_api_key \notin {NoneVal, ""})
      /\ \A u \in EnvUrls, k \in EnvKeys :
            /\ sonarr_configured([settings EXCEPT !.radarr_url = u,
                                                   !.radarr_api_key = k])
                 = sonarr_configured(settings)
            /\ radarr_configured([settings EXCEPT !.sonarr_url = u,
                                                   !.sonarr_api_key = k])
                 = radarr_configured(settings)

\* Sonarr has a URL but an empty key (not configured) while Radarr is configured.
C14_Witness ==
    /\ settings.loaded
    /\ settings.sonarr_url = "http://sonarr:8989"
    /\ settings.sonarr_api_key = ""
    /\ ~sonarr_configured(settings)
    /\ radarr_configured(settings)

\* C15: a status endpoint reports connected = true only when the service is
\* configured and reachable.  Fails: no test call is made, a configured but
\* unreachable service is reported connected.
C15_ConnectedOnlyIfReachable ==
    /\ (last.ep = "get_sonarr_status" /\ last.connected)
          => (sonarr_configured(settings) /\ remote.reachable)
    /\ (last.ep = "get_radarr_status" /\ last.connected)
          => (radarr_configured(settings) /\ remote.reachable)

\* C16: a test-connection request leaves the settings, the environment and
\* both configured flags as they were.
C16_TestConnectionSavesNothing ==
    [][(nreq' = nreq + 1 /\ last'.ep \in TestEndpoints)
          => /\ settings' = settings
             /\ env' = env
             /\ sonarr_configured(settings') = sonarr_configured(settings)
             /\ radarr_configured(settings') = radarr_configured(settings)]_vars

\* A test of valid credentials was answered "connected" with the URL of the
\* request, and Sonarr is still not configured.
C16_Witness ==
    /\ last.ep = "test_sonarr_connection"
    /\ last.code = 200
    /\ last.connected
    /\ last.url = "http://sonarr:8989"
    /\ settings.sonarr_url = NoneVal
    /\ ~sonarr_configured(settings)

\* C17: create_tag answers 400 when a tag with the requested label already
\* exists, and 201 with the created tag otherwise.  Fails: no branch answers
\* 400, an existing label is answered 201 with the placeholder id.
C17_ExistingLabelRejected ==
    (last.ep = "create_tag" /\ last.code \notin {422, 503})
        => IF remote.tag_exists
           THEN last.code = 400
           ELSE last.code = 201 /\ last.label \in LabelInputs

\* C18: update_movie_tags fails with 404 only when the movie does not exist,
\* and otherwise answers with the movie carrying exactly the requested tags.
\* Fails: a configured service answers 404 for every movie.
C18_NotFoundOnlyIfMissing ==
    (last.ep = "update_movie_tags" /\ last.code # 503)
        => (last.code = 404 <=> ~remote.movie_exists)

\* C19: once loaded, the Settings object (and with it both configured flags)
\* never changes, whatever is called and however the environment is edited.
C19_SettingsLoadedOnce ==
    [][settings.loaded
          => /\ settings' = settings
             /\ sonarr_configured(settings') = sonarr_configured(settings)
             /\ radarr_configured(settings') = radarr_configured(settings)]_vars

\* get_settings() was called a second time and a request was answered, with
\* an environment that no longer has the Sonarr key the settings hold.
C19_Witness ==
    /\ settings.loaded
    /\ ncalls = 2
    /\ nreq > 0
    /\ sonarr_configured(settings)
    /\ env.sonarr_api_key = ""

----------------------------------------------------------------------------
(* Properties of tag identity, the unguarded endpoints, health and log_level *)

\* C24: the id answered by create_tag identifies the tag: two create_tag
\* requests for different labels are not answered with the same id.
\* Fails: every label is answered with the placeholder id 999.
C24_DistinctLabelsDistinctIds ==
    [][(/\ last.ep = "create_tag" /\ last.code = 201
        /\ nreq' = nreq + 1
        /\ last'.ep = "create_tag" /\ last'.code = 201
        /\ last'.label # last.label)
          => last'.id # last.id]_vars

\* C25: the status and test-connection endpoints never answer 503; a status
\* request for an unconfigured service is answered connected = false with an
\* error and neither url nor version; a valid test-connection request is
\* answered, configured or not, with the URL of the request.
C25_StatusAndTestUnguarded ==
    /\ last.ep \in (StatusEndpoints \cup TestEndpoints) => last.code \in {200, 422}
    /\ last.ep \in StatusEndpoints => last.code = 200
    /\ (last.ep = "get_sonarr_status" /\ ~sonarr_configured(settings))
          => /\ last.connected = FALSE
             /\ last.error # NoneVal
             /\ last.url = NoneVal
             /\ last.version = NoneVal
    /\ (last.ep = "get_radarr_status" /\ ~radarr_configured(settings))
          => /\ last.connected = FALSE
             /\ last.error # NoneVal
             /\ last.url = NoneVal
             /\ last.version = NoneVal
    /\ (last.ep \in TestEndpoints /\ last.code = 200)
          => last.url = last.req_url

\* A test of Radarr credentials was answered with the URL of the request
\* while Radarr is not configured.
C25_Witness ==
    /\ last.ep = "test_radarr_connection"
    /\ last.code = 200
    /\ last.url = "http://sonarr:8989"
    /\ settings.radarr_url = "http://radarr:7878"
    /\ ~radarr_configured(settings)

\* C26: in the detailed health answer each service's status is "configured"
\* exactly when its flag is true, its url is the configured URL then and null
\* otherwise, and the overall status is "healthy" in every configuration.
C26_DetailedHealthMirrorsConfiguration ==
    /\ last.ep \in {"health_check", "detailed_health_check"}
          => last.code = 200 /\ last.status = "healthy"
    /\ last.ep = "detailed_health_check"
          => /\ last.sonarr_status \in {"configured", "not_configured"}
             /\ last.sonarr_status = "configured" <=> sonarr_configured(settings)
             /\ last.sonarr_url = (IF sonarr_configured(settings)
                                   THEN settings.sonarr_url ELSE NoneVal)
             /\ last.radarr_status \in {"configured", "not_configured"}
             /\ last.radarr_status = "configured" <=> radarr_configured(settings)
             /\ last.radarr_url = (IF radarr_configured(settings)
                                   THEN settings.radarr_url ELSE NoneVal)

\* Sonarr has a URL but no key: its URL is not revealed, while the configured
\* Radarr's is.
C26_Witness ==
    /\ last.ep = "detailed_health_check"
    /\ settings.sonarr_url = "http://sonarr:8989"
    /\ settings.sonarr_api_key = NoneVal
    /\ last.sonarr_status = "not_configured"
    /\ last.sonarr_url = NoneVal
    /\ last.radarr_status = "configured"
    /\ last.radarr_url = "http://radarr:7878"

\* a and b are equal up to the case of their letters.
SameIgnoringCase(a, b) ==
    /\ Len(a) = Len(b)
    /\ \A i \in 1..Len(a) :
          \/ a[i] = b[i]
          \/ \E j \in 1..Len(LowerAlpha) :
                {a[i], b[i]} = {LowerAlpha[j], UpperAlpha[j]}

\* C27: Settings exist only with a log_level among the five valid levels; an
\* input equal to a level up to letter case is stored as that level, any other
\* input makes loading fail, and validating a stored value returns it unchanged.
C27_LogLevelValidated ==
    /\ settings.loaded
          => /\ settings.log_level \in valid_levels
             /\ SameIgnoringCase(env.log_level, settings.log_level)
             /\ ValidLogLevel(settings.log_level)
             /\ validate_log_level(settings.log_level) = settings.log_level
    /\ phase = "running"
          <=> (ncalls > 0 /\ \E l \in valid_levels : SameIgnoringCase(env.log_level, l))
    /\ phase = "failed"
          <=> (ncalls > 0 /\ ~\E l \in valid_levels : SameIgnoringCase(env.log_level, l))

\* "Debug" was given and the settings hold "DEBUG".
C27_Witness ==
    /\ settings.loaded
    /\ env.log_level = <<"D","e","b","u","g">>
    /\ settings.log_level = <<"D","E","B","U","G">>
    /\ nreq > 0

====
